---- MODULE Spec2Model ----
(***************************************************************************)
(* very_simple_rest: the RestApi derive macro (crates/rest_macro/src/lib.rs) *)
(* and the handlers it generates, run against one SQL store.               *)
(*                                                                         *)
(* Part 1 models the macro expansion as pure operators over an entity      *)
(* declaration.  Part 2 models the store.  Part 3 models the generated     *)
(* configure / create_table_if_not_exists / handlers as actions.           *)
(***************************************************************************)
EXTENDS Integers, Sequences, FiniteSets, TLC

VARIABLES
    decl,         \* the annotated struct handed to the derive macro
    gen,          \* <<>> before expansion, <<generated code parameters>> after
    registered,   \* TRUE once some configure call has registered the routes
    pending,      \* spawned create_table_if_not_exists tasks not yet run
    ddl,          \* outcome of the last materialization run
    tableExists,  \* the store holds the entity's table
    rows,         \* the table: id -> row (column -> value)
    nextId,       \* the store's AUTOINCREMENT sequence
    req           \* the request being handled, or the last one handled

vars == <<decl, gen, registered, pending, ddl, tableExists, rows, nextId, req>>

(***************************************************************************)
(* Bounds                                                                  *)
(***************************************************************************)
MaxId == 2        \* ids a table may hand out
MaxPending == 1   \* materialization tasks spawned and not yet run

TextValues == {"a", "b"}                 \* text a payload field may carry
StampValues == {"t"}                     \* a timestamp a payload may carry
Ids == {1, 2}                            \* ids a path or a payload may name
RoleSets == {{}, {"user"}, {"admin"}}    \* identity role sets

\* A stored timestamp is kept relative to the store's clock: "now" when it
\* is the clock's current reading, "old" when the clock has moved on since.
Now == "now"
Old == "old"

(***************************************************************************)
(* Part 1: the macro                                                       *)
(***************************************************************************)

\* Option<T> is a sequence of length at most one.
None == <<>>
Some(v) == <<v>>

RECURSIVE LastValue(_, _, _)
\* The value a parse_nested_meta closure leaves in a variable that it
\* overwrites for every pair <<key, value>> whose key is `key`.
LastValue(pairs, key, default) ==
    IF pairs = <<>> THEN default
    ELSE LET p == pairs[Len(pairs)]
         IN IF p[1] = key THEN p[2]
            ELSE LastValue(SubSeq(pairs, 1, Len(pairs) - 1), key, default)

\* A nested meta item is <<key, value>> when its value is a string literal,
\* <<key, value, kind>> when it is a literal of another kind, and <<key>>
\* when it has no "= value" at all.
LitKind(p) == IF Len(p) = 1 THEN "none" ELSE IF Len(p) = 3 THEN p[3] ELSE "str"

RECURSIVE ParsedItems(_, _)
\* The items a parse_nested_meta closure gets through: the closure returns
\* Err (by `?`) at the first item without a value, or, where it parses a
\* LitStr, at the first item whose literal is not a string; parsing stops
\* there, and the caller drops the error (let _ = ...).
ParsedItems(pairs, lit_str) ==
    IF pairs = <<>> THEN <<>>
    ELSE LET k == LitKind(Head(pairs))
         IN IF k = "none" \/ (lit_str /\ k # "str") THEN <<>>
            ELSE <<Head(pairs)>> \o ParsedItems(Tail(pairs), lit_str)

RECURSIVE StrItems(_)
\* if let Lit::Str(litstr) = value: the items whose literal is a string.
StrItems(pairs) ==
    IF pairs = <<>> THEN <<>>
    ELSE IF LitKind(Head(pairs)) = "str" THEN <<Head(pairs)>> \o StrItems(Tail(pairs))
    ELSE StrItems(Tail(pairs))

\* db_type: "sqlite" unless a rest_api(db = "...") attribute names another.
db_type_of(d) == LastValue(StrItems(ParsedItems(d.rest_api, FALSE)), "db", "sqlite")

pool_type_of(db) ==
    CASE db = "sqlite" -> "SqlitePool"
      [] db = "mysql" -> "MySqlPool"
      [] db = "postgres" -> "PgPool"
      [] OTHER -> "AnyPool"

\* read_role / update_role / delete_role: Option<String>.
role_of(d, category) ==
    LET items == ParsedItems(d.require_role, TRUE)
        v == LastValue(items, category, "")
    IN IF \E i \in 1..Len(items) : items[i][1] = category
       THEN Some(v) ELSE None

IntTypes == {"i32", "i64", "Option<i32>", "Option<i64>"}
RealTypes == {"f32", "f64", "Option<f32>", "Option<f64>"}

sql_type_of(ty) ==
    IF ty \in IntTypes THEN "INTEGER"
    ELSE IF ty \in RealTypes THEN "REAL"
    ELSE "TEXT"

\* A SET clause "<col> = ?" / "<col> = $n" / "<col> = CURRENT_TIMESTAMP".
Positional(col) == [col |-> col, kind |-> "?", n |-> 0]
Ordinal(col, k) == [col |-> col, kind |-> "$", n |-> k]
CurrentTimestamp(col) == [col |-> col, kind |-> "CURRENT_TIMESTAMP", n |-> 0]

RECURSIVE relation_items(_, _)
\* The closure over one #[relation(...)] attribute: each key's assignment
\* happens only once its value has parsed as a LitStr.  The value of
\* references is held as its parts between the dots.
relation_items(pairs, sofar) ==
    IF pairs = <<>> THEN sofar
    ELSE LET p == Head(pairs)
         IN IF p[1] \in {"foreign_key", "references", "nested_route"} /\ LitKind(p) # "str"
            THEN sofar
            ELSE relation_items(Tail(pairs),
                    IF p[1] = "foreign_key" THEN [sofar EXCEPT !.foreign_key = Some(p[2])]
                    ELSE IF p[1] = "references" THEN [sofar EXCEPT !.references = Some(p[2])]
                    ELSE IF p[1] = "nested_route" THEN [sofar EXCEPT !.nested_route = p[2] = "true"]
                    ELSE sofar)

\* foreign_key, references and nested_route after one attribute is parsed.
relation_attr(pairs) ==
    relation_items(pairs, [foreign_key |-> None, references |-> None, nested_route |-> FALSE])

\* The relation a field's #[relation(...)] attributes leave behind, given
\* the relation recorded so far.
RECURSIVE relation_of(_, _, _)
relation_of(attrs, name, sofar) ==
    IF attrs = <<>> THEN sofar
    ELSE LET a == relation_attr(Head(attrs))
             hit == /\ a.foreign_key # None
                    /\ a.references # None
                    /\ Len(a.references[1]) = 2
         IN relation_of(Tail(attrs), name,
                IF hit THEN [field |-> name, parent_table |-> a.references[1][1]]
                ELSE sofar)

update_clause_of(db, name, update_clauses) ==
    IF db = "postgres" THEN Ordinal(name, Len(update_clauses) + 1)
    ELSE Positional(name)

\* let id_field = "id".
id_field_name == "id"

\* One iteration of the loop over the struct's named fields.
field_step(acc, field, db) ==
    LET name == field.name
        a1 == [acc EXCEPT !.relation = relation_of(field.relation, name, @)]
    IN IF name = "created_at" \/ name = "updated_at"
       THEN [a1 EXCEPT
               !.field_defs = Append(@, [name |-> name, sql |-> "TEXT DEFAULT CURRENT_TIMESTAMP"]),
               !.skip_insert_fields = @ \cup {name},
               !.update_clauses = IF name = "updated_at"
                                  THEN Append(@, CurrentTimestamp("updated_at"))
                                  ELSE @]
       ELSE LET is_id == name = id_field_name
                a2 == [a1 EXCEPT
                         !.field_defs = Append(@,
                            IF is_id
                            THEN [name |-> name, sql |-> "INTEGER PRIMARY KEY AUTOINCREMENT"]
                            ELSE [name |-> name, sql |-> sql_type_of(field.ty)]),
                         !.skip_insert_fields = IF is_id THEN @ \cup {name} ELSE @,
                         !.field_names = Append(@, name)]
                a3 == [a2 EXCEPT
                         !.bind_fields_insert =
                            IF name \notin a2.skip_insert_fields THEN Append(@, name) ELSE @]
            IN IF ~is_id /\ name # "created_at" /\ name # "updated_at"
               THEN [a3 EXCEPT
                       !.bind_fields_update = Append(@, name),
                       !.update_clauses =
                           Append(@, update_clause_of(db, name, a3.update_clauses))]
               ELSE a3

RECURSIVE field_loop(_, _, _)
field_loop(acc, fields, db) ==
    IF fields = <<>> THEN acc
    ELSE field_loop(field_step(acc, Head(fields), db), Tail(fields), db)

RECURSIVE Filter(_, _)
\* The elements of seq that are not in `drop`, in order.
Filter(seq, drop) ==
    IF seq = <<>> THEN <<>>
    ELSE IF Head(seq) \in drop THEN Filter(Tail(seq), drop)
    ELSE <<Head(seq)>> \o Filter(Tail(seq), drop)

Range(seq) == {seq[i] : i \in 1..Len(seq)}

\* PartialX: every field but id, each Option<T>.
partial_fields_of(d) == Filter([i \in 1..Len(d.fields) |-> d.fields[i].name], {"id"})

\* The fields patch emits a SET clause for (set_tokens / bind_tokens).
set_tokens_of(field_idents) == Filter(field_idents, {"id", "created_at", "updated_at"})

\* Whether patch carries the updated_at assignment.
updated_at_code_of(field_names) == "updated_at" \in Range(field_names)

insert_placeholders_of(insert_fields) == [i \in 1..Len(insert_fields) |-> "?"]

\* Everything the expansion bakes into the generated module.
rest_api_macro(d) ==
    LET db == db_type_of(d)
        acc0 == [field_defs |-> <<>>, field_names |-> <<>>,
                 bind_fields_insert |-> <<>>, bind_fields_update |-> <<>>,
                 update_clauses |-> <<>>, skip_insert_fields |-> {},
                 relation |-> [field |-> "", parent_table |-> ""]]
        acc == field_loop(acc0, d.fields, db)
        insert_fields == Filter(acc.field_names, acc.skip_insert_fields)
    IN [table_name |-> d.struct,
        db_type |-> db,
        pool_type |-> pool_type_of(db),
        read_role |-> role_of(d, "read"),
        update_role |-> role_of(d, "update"),
        delete_role |-> role_of(d, "delete"),
        field_defs |-> acc.field_defs,
        field_names |-> acc.field_names,
        bind_fields_insert |-> acc.bind_fields_insert,
        bind_fields_update |-> acc.bind_fields_update,
        update_sql |-> acc.update_clauses,
        insert_fields |-> insert_fields,
        insert_placeholders |-> insert_placeholders_of(insert_fields),
        relation_field |-> acc.relation.field,
        relation_parent_table |-> acc.relation.parent_table,
        partial_fields |-> partial_fields_of(d),
        set_tokens |-> set_tokens_of(acc.field_names),
        updated_at_code |-> updated_at_code_of(acc.field_names)]

(***************************************************************************)
(* Part 2: the store                                                       *)
(*                                                                         *)
(* One table.  A statement is what a handler hands to sqlx: its kind, its  *)
(* SET clauses, or its column list and VALUES placeholders, its WHERE      *)
(* comparison (none, or one "<col> = <placeholder>"), and the values       *)
(* bound, in binding order.                                                *)
(***************************************************************************)

NoRows == <<>>

Statement(kind, table, set, cols, values, where, binds) ==
    [kind |-> kind, table |-> table, set |-> set, cols |-> cols,
     values |-> values, where |-> where, binds |-> binds]

RECURSIVE CountPositional(_)
\* How many "?" placeholders a clause list holds.
CountPositional(clauses) ==
    IF clauses = <<>> THEN 0
    ELSE (IF Head(clauses).kind = "?" THEN 1 ELSE 0) + CountPositional(Tail(clauses))

\* The value a SET clause assigns: a "?" takes the next bound value, "$n"
\* the n-th, CURRENT_TIMESTAMP the store's clock.
ClauseValue(set, i, binds) ==
    LET c == set[i]
    IN CASE c.kind = "?" -> binds[CountPositional(SubSeq(set, 1, i))]
         [] c.kind = "$" -> binds[c.n]
         [] OTHER -> Now

\* The last clause that assigns column col, or 0.
LastAssign(set, col) ==
    LET hits == {i \in 1..Len(set) : set[i].col = col}
    IN IF hits = {} THEN 0 ELSE CHOOSE i \in hits : \A j \in hits : j <= i

UpdatedRow(row, set, binds) ==
    [c \in DOMAIN row |->
        IF LastAssign(set, c) = 0 THEN row[c]
        ELSE ClauseValue(set, LastAssign(set, c), binds)]

\* The value the WHERE clause's placeholder takes: a "?" the one bound
\* after the SET clauses' own, "$n" the n-th.
WhereValue(stmt) ==
    IF stmt.where[1].kind = "$" THEN stmt.binds[stmt.where[1].n]
    ELSE stmt.binds[CountPositional(stmt.set) + 1]

Matching(table, stmt) ==
    IF stmt.where = <<>> THEN DOMAIN table
    ELSE {i \in DOMAIN table : table[i][stmt.where[1].col] = WhereValue(stmt)}

Position(seq, x) == CHOOSE i \in 1..Len(seq) : seq[i] = x

\* The row an INSERT stores: listed columns take the bound values in order,
\* the id the AUTOINCREMENT sequence, a column with DEFAULT CURRENT_TIMESTAMP
\* the clock, any other column NULL.
InsertedRow(stmt, field_defs, id) ==
    [c \in {field_defs[i].name : i \in 1..Len(field_defs)} |->
        IF c \in Range(stmt.cols) THEN stmt.binds[Position(stmt.cols, c)]
        ELSE LET def == field_defs[CHOOSE i \in 1..Len(field_defs) : field_defs[i].name = c]
             IN IF def.sql = "INTEGER PRIMARY KEY AUTOINCREMENT" THEN id
                ELSE IF def.sql = "TEXT DEFAULT CURRENT_TIMESTAMP" THEN Now
                ELSE "NULL"]

\* The store's answer to a statement: Err when the store cannot be reached
\* or the table does not exist; otherwise the affected/returned rows and
\* the table afterwards.
Execute(stmt, reachable, exists, table, seq, field_defs) ==
    IF ~reachable \/ ~exists
    THEN [ok |-> FALSE, affected |-> 0, out |-> {}, rows |-> table, nextId |-> seq]
    ELSE LET hit == Matching(table, stmt)
         IN CASE stmt.kind = "SELECT" ->
                   [ok |-> TRUE, affected |-> 0, out |-> {table[i] : i \in hit},
                    rows |-> table, nextId |-> seq]
              [] stmt.kind = "INSERT" ->
                   [ok |-> TRUE, affected |-> 1, out |-> {},
                    rows |-> [i \in DOMAIN table \cup {seq} |->
                                IF i = seq THEN InsertedRow(stmt, field_defs, seq)
                                ELSE table[i]],
                    nextId |-> seq + 1]
              [] stmt.kind = "UPDATE" ->
                   [ok |-> TRUE, affected |-> Cardinality(hit), out |-> {},
                    rows |-> [i \in DOMAIN table |->
                                IF i \in hit
                                THEN UpdatedRow(table[i], stmt.set, stmt.binds)
                                ELSE table[i]],
                    nextId |-> seq]
              [] OTHER ->
                   [ok |-> TRUE, affected |-> Cardinality(hit), out |-> {},
                    rows |-> [i \in DOMAIN table \ hit |-> table[i]],
                    nextId |-> seq]

\* The store's answer to CREATE TABLE [IF NOT EXISTS], and whether the
\* table exists afterwards.
ExecuteCreateTable(sql, reachable, exists) ==
    IF ~reachable THEN [outcome |-> "unreachable", exists |-> exists]
    ELSE IF exists
    THEN [outcome |-> IF sql.if_not_exists THEN "kept" ELSE "error", exists |-> TRUE]
    ELSE [outcome |-> "created", exists |-> TRUE]

\* The table once the clock has moved on: no stored timestamp is the
\* clock's reading any more.
Aged(table, field_defs) ==
    LET stamps == {field_defs[i].name :
                     i \in {j \in 1..Len(field_defs) :
                              field_defs[j].sql = "TEXT DEFAULT CURRENT_TIMESTAMP"}}
    IN [i \in DOMAIN table |->
          [c \in DOMAIN table[i] |->
              IF c \in stamps /\ table[i][c] = Now THEN Old ELSE table[i][c]]]

(***************************************************************************)
(* Part 3: the generated module                                            *)
(*                                                                         *)
(* A handler runs from its entry to its only await (the statement handed   *)
(* to the store) in one step, and from the store's answer to its response  *)
(* in a second.  Handlers share nothing but the store and every handler    *)
(* sends at most one statement, which the store runs atomically, so the    *)
(* runs of concurrent requests are the runs of requests taken one after    *)
(* another: req holds one request at a time, from its arrival to the     *)
(* moment its response has left.                                           *)
(***************************************************************************)

Gen == gen[1]

\* The entities served: the demo's Post (timestamps, every category gated by
\* "user") and Comment (a relation to post), cut to the fields that differ
\* in kind.  Comment's require_role is varied so that every shape of gate
\* occurs: its read category is left undeclared (the macro then expands no
\* check) and its delete category asks for "admin", as the demo's User does.
NoRelation == <<>>
Post ==
    [struct |-> "post",
     rest_api |-> <<<<"table", "post">>, <<"id", "id">>, <<"db", "sqlite">>>>,
     require_role |-> <<<<"read", "user">>, <<"update", "user">>,
                        <<"patch", "user">>, <<"delete", "user">>>>,
     fields |-> <<[name |-> "id", ty |-> "Option<i64>", relation |-> NoRelation],
                  [name |-> "title", ty |-> "String", relation |-> NoRelation],
                  [name |-> "updated_at", ty |-> "Option<String>", relation |-> NoRelation]>>]
Comment ==
    [struct |-> "comment",
     rest_api |-> <<<<"table", "comment">>, <<"id", "id">>, <<"db", "sqlite">>>>,
     require_role |-> <<<<"update", "user">>, <<"patch", "user">>, <<"delete", "admin">>>>,
     fields |-> <<[name |-> "id", ty |-> "Option<i64>", relation |-> NoRelation],
                  [name |-> "title", ty |-> "String", relation |-> NoRelation],
                  [name |-> "post_id", ty |-> "i64",
                   relation |-> <<<<<<"foreign_key", "post_id">>,
                                     <<"references", <<"post", "id">>>>,
                                     <<"nested_route", "true">>>>>>]>>]
Entities == {Post, Comment}

IsOption(ty) == ty \in {"Option<i32>", "Option<i64>", "Option<f32>", "Option<f64>", "Option<String>"}

\* The JSON bodies serde accepts as Self: every field that is not an Option
\* is present (the id, which no handler reads, is left out).
FieldValues(d, name) ==
    LET f == d.fields[CHOOSE i \in 1..Len(d.fields) : d.fields[i].name = name]
    IN IF f.ty \in IntTypes THEN Ids
       ELSE IF name \in {"created_at", "updated_at"} THEN StampValues
       ELSE TextValues

RECURSIVE Records(_, _)
\* Every record over the fields S, each field holding a value of its type.
Records(d, S) ==
    IF S = {} THEN {<<>>}
    ELSE LET f == CHOOSE x \in S : TRUE
         IN {r @@ (f :> v) : r \in Records(d, S \ {f}), v \in FieldValues(d, f)}

Payloads(d) ==
    LET all == {d.fields[i].name : i \in 1..Len(d.fields)} \ {"id"}
        required == {d.fields[i].name : i \in {j \in 1..Len(d.fields) : ~IsOption(d.fields[j].ty)}} \ {"id"}
    IN UNION {Records(d, S) : S \in {T \in SUBSET all : required \subseteq T}}

\* The JSON bodies serde accepts as PartialX: any subset of its fields.
PartialPayloads(d, g) == UNION {Records(d, S) : S \in SUBSET Range(g.partial_fields)}

\* The bodies a client may send to each entity, worked out once.
Items == [d \in Entities |-> Payloads(d)]
Partials == [d \in Entities |-> PartialPayloads(d, rest_api_macro(d))]

NoPayload == <<>>

Idle ==
    [op |-> "none", pc |-> "idle", roles |-> {}, id |-> 0, payload |-> NoPayload,
     stmt |-> None, stmts |-> 0, status |-> 0, ok |-> FALSE, affected |-> 0, body |-> {}]

\* A gate that forgets the administrator.
role_check_without_admin(role, roles) ==
    IF role # None
    THEN role[1] \notin roles
    ELSE FALSE

\* The gates: TRUE when the generated check returns Forbidden.
role_check(role, roles) ==
    IF role # None
    THEN "admin" \notin roles /\ role[1] \notin roles
    ELSE FALSE
read_check(g, roles) == role_check(g.read_role, roles)
update_check(g, roles) == role_check(g.update_role, roles)
\* A delete gate pasted from the read gate.
delete_check_on_read_role(g, roles) == role_check(g.read_role, roles)
delete_check(g, roles) == role_check(g.delete_role, roles)

\* A handler's early return: the response, no statement sent.
Return(op, roles, id, payload, status) ==
    [Idle EXCEPT !.op = op, !.pc = "done", !.roles = roles, !.id = id,
                 !.payload = payload, !.status = status]

\* A handler at its await: the statement is with the store.
Await(op, roles, id, payload, stmt) ==
    [Idle EXCEPT !.op = op, !.pc = "awaiting", !.roles = roles, !.id = id,
                 !.payload = payload, !.stmt = Some(stmt), !.stmts = 1]

\* The routes are registered and no request is being handled.
Serving == registered /\ req.pc = "idle"

Frame == UNCHANGED <<decl, gen, registered, pending, ddl, tableExists, rows, nextId>>

Init ==
    /\ decl \in Entities
    /\ gen = <<rest_api_macro(decl)>>
    /\ registered = FALSE
    /\ pending = 0
    /\ ddl = "none"
    /\ tableExists \in BOOLEAN
    /\ rows = NoRows
    /\ nextId = 1
    /\ req = Idle

\* The resources configure registers, each path as its segments.
nested_route_registration(g) ==
    IF g.relation_field # ""
    THEN {<<g.relation_parent_table, "{parent_id}", g.table_name>>}
    ELSE {}
routes(g) ==
    {<<g.table_name>>, <<g.table_name, "{id}">>} \cup nested_route_registration(g)

\* A configure that runs the materialization itself and registers the
\* routes only once the table is there.
configure_after_materialization ==
    /\ pending < MaxPending
    /\ \E reachable \in BOOLEAN :
          /\ reachable
          /\ tableExists' = TRUE
          /\ ddl' = IF tableExists THEN "kept" ELSE "created"
    /\ registered' = TRUE
    /\ UNCHANGED <<decl, gen, pending, rows, nextId, req>>

\* configure: share the pool, spawn the materialization, register the routes.
configure ==
    /\ pending < MaxPending
    /\ pending' = pending + 1
    /\ registered' = TRUE
    /\ UNCHANGED <<decl, gen, ddl, tableExists, rows, nextId, req>>

\* The DDL without its IF NOT EXISTS.
create_table_sql_unguarded(g) ==
    [kind |-> "CREATE TABLE", if_not_exists |-> FALSE,
     table |-> g.table_name, field_defs |-> g.field_defs]

create_table_sql(g) ==
    [kind |-> "CREATE TABLE", if_not_exists |-> TRUE,
     table |-> g.table_name, field_defs |-> g.field_defs]

\* create_table_if_not_exists: one spawned task runs; its result is dropped.
create_table_if_not_exists(reachable) ==
    /\ pending > 0
    /\ pending' = pending - 1
    /\ LET r == ExecuteCreateTable(create_table_sql(Gen), reachable, tableExists)
       IN /\ tableExists' = r.exists
          /\ ddl' = r.outcome
    /\ UNCHANGED <<decl, gen, registered, rows, nextId, req>>

\* The store's clock advances.
Tick ==
    /\ rows' = Aged(rows, Gen.field_defs)
    /\ rows' # rows
    /\ UNCHANGED <<decl, gen, registered, pending, ddl, tableExists, nextId, req>>

select_all_sql(g) == Statement("SELECT", g.table_name, <<>>, <<>>, <<>>, <<>>, <<>>)
select_one_sql(g, id) ==
    Statement("SELECT", g.table_name, <<>>, <<>>, <<>>, <<Positional(id_field_name)>>, <<id>>)
\* A nested list that filters on the id column.
select_by_parent_sql_on_id(g, parent_id) ==
    Statement("SELECT", g.table_name, <<>>, <<>>, <<>>,
              <<Positional(id_field_name)>>, <<parent_id>>)

select_by_parent_sql(g, parent_id) ==
    Statement("SELECT", g.table_name, <<>>, <<>>, <<>>,
              <<Positional(g.relation_field)>>, <<parent_id>>)
delete_sql(g, id) ==
    Statement("DELETE", g.table_name, <<>>, <<>>, <<>>, <<Positional(id_field_name)>>, <<id>>)

\* q.bind(&item.f) for each f of `fields`, in order.
Binds(fields, item) == [i \in 1..Len(fields) |-> item[fields[i]]]

insert_sql(g, item) ==
    Statement("INSERT", g.table_name, <<>>, g.insert_fields, g.insert_placeholders,
              <<>>, Binds(g.bind_fields_insert, item))
update_sql(g, item, id) ==
    Statement("UPDATE", g.table_name, g.update_sql, <<>>, <<>>,
              <<Positional(id_field_name)>>, Binds(g.bind_fields_update, item) \o <<id>>)

\* patch: the SET clause built from the fields that are Some, then the
\* updated_at assignment when the expansion carries it.
patch_set(g, partial) ==
    LET present == Filter(g.set_tokens, Range(g.set_tokens) \ DOMAIN partial)
        clauses == [i \in 1..Len(present) |-> Positional(present[i])]
    IN IF g.updated_at_code
       THEN Append(clauses, CurrentTimestamp("updated_at"))
       ELSE clauses
patch_binds(g, partial, id) ==
    Binds(Filter(g.set_tokens, Range(g.set_tokens) \ DOMAIN partial), partial) \o <<id>>
patch_sql(g, partial, id) ==
    Statement("UPDATE", g.table_name, patch_set(g, partial), <<>>, <<>>,
              <<Positional("id")>>, patch_binds(g, partial, id))

\* A patch without its "if first { return Ok }".
first_never_tested(g, partial) == FALSE

\* patch's `first` flag after the SET clause is built: nothing was pushed.
first_after_set(g, partial) == patch_set(g, partial) = <<>>

get_all(roles) ==
    /\ Serving
    /\ req' = IF read_check(Gen, roles)
              THEN Return("get_all", roles, 0, NoPayload, 403)
              ELSE Await("get_all", roles, 0, NoPayload, select_all_sql(Gen))
    /\ Frame

get_one(roles, id) ==
    /\ Serving
    /\ req' = IF read_check(Gen, roles)
              THEN Return("get_one", roles, id, NoPayload, 403)
              ELSE Await("get_one", roles, id, NoPayload, select_one_sql(Gen, id))
    /\ Frame

create(roles, item) ==
    /\ Serving
    /\ req' = IF update_check(Gen, roles)
              THEN Return("create", roles, 0, item, 403)
              ELSE Await("create", roles, 0, item, insert_sql(Gen, item))
    /\ Frame

update(roles, id, item) ==
    /\ Serving
    /\ req' = IF update_check(Gen, roles)
              THEN Return("update", roles, id, item, 403)
              ELSE Await("update", roles, id, item, update_sql(Gen, item, id))
    /\ Frame

patch(roles, id, partial) ==
    /\ Serving
    /\ req' = IF update_check(Gen, roles)
              THEN Return("patch", roles, id, partial, 403)
              ELSE IF first_after_set(Gen, partial)
              THEN Return("patch", roles, id, partial, 200)
              ELSE Await("patch", roles, id, partial, patch_sql(Gen, partial, id))
    /\ Frame

delete(roles, id) ==
    /\ Serving
    /\ req' = IF delete_check(Gen, roles)
              THEN Return("delete", roles, id, NoPayload, 403)
              ELSE Await("delete", roles, id, NoPayload, delete_sql(Gen, id))
    /\ Frame

\* Generated, and its route registered, only when a relation was recorded.
get_by_parent_id(roles, parent_id) ==
    /\ Serving
    /\ Gen.relation_field # ""
    /\ req' = IF read_check(Gen, roles)
              THEN Return("get_by_parent_id", roles, parent_id, NoPayload, 403)
              ELSE Await("get_by_parent_id", roles, parent_id, NoPayload,
                         select_by_parent_sql(Gen, parent_id))
    /\ Frame

\* Each handler's match on the store's answer r.
get_all_response(r) == IF r.ok THEN 200 ELSE 500
get_one_response(r) == IF r.ok THEN (IF r.out # {} THEN 200 ELSE 404) ELSE 500

\* A create that answers Created whatever the store said.
create_response_always_created(r) == 201

create_response(r) == IF r.ok THEN 201 ELSE 500
update_response(r) == IF r.ok THEN 200 ELSE 500
patch_response(r) == IF r.ok THEN (IF r.affected > 0 THEN 200 ELSE 404) ELSE 500
delete_response(r) == IF r.ok THEN 200 ELSE 500
get_by_parent_id_response(r) == IF r.ok THEN 200 ELSE 500

Response(op, r) ==
    CASE op = "get_all" -> get_all_response(r)
      [] op = "get_one" -> get_one_response(r)
      [] op = "create" -> create_response(r)
      [] op = "update" -> update_response(r)
      [] op = "patch" -> patch_response(r)
      [] op = "delete" -> delete_response(r)
      [] OTHER -> get_by_parent_id_response(r)

\* The store runs the awaited statement and the handler answers.
Answer(reachable) ==
    /\ req.pc = "awaiting"
    /\ req.stmt[1].kind = "INSERT" /\ reachable /\ tableExists => nextId <= MaxId
    /\ LET r == Execute(req.stmt[1], reachable, tableExists, rows, nextId,
                        Gen.field_defs)
       IN /\ rows' = r.rows
          /\ nextId' = r.nextId
          /\ req' = [req EXCEPT !.pc = "done", !.status = Response(req.op, r),
                                !.ok = r.ok, !.affected = r.affected,
                                !.body = IF r.ok THEN r.out ELSE {}]
    /\ UNCHANGED <<decl, gen, registered, pending, ddl, tableExists>>

\* The response has left; the next request may arrive.
Respond ==
    /\ req.pc = "done"
    /\ req' = Idle
    /\ Frame

Next ==
    \/ configure
    \/ \E reachable \in BOOLEAN : create_table_if_not_exists(reachable)
    \/ Tick
    \/ \E roles \in RoleSets : get_all(roles)
    \/ \E roles \in RoleSets, id \in Ids : get_one(roles, id)
    \/ \E roles \in RoleSets, item \in Items[decl] : create(roles, item)
    \/ \E roles \in RoleSets, id \in Ids, item \in Items[decl] : update(roles, id, item)
    \/ \E roles \in RoleSets, id \in Ids, partial \in Partials[decl] :
          patch(roles, id, partial)
    \/ \E roles \in RoleSets, id \in Ids : delete(roles, id)
    \/ \E roles \in RoleSets, parent_id \in Ids : get_by_parent_id(roles, parent_id)
    \/ \E reachable \in BOOLEAN : Answer(reachable)
    \/ Respond

Spec == Init /\ [][Next]_vars

(***************************************************************************)
(* The expansion on its own: any struct with an id, its other fields among *)
(* title, content, created_at and updated_at in any order, under any       *)
(* dialect, is handed to the macro; and so is a struct with two foreign    *)
(* key fields under any of the annotations below, well formed or not.      *)
(***************************************************************************)

FieldNames == {"title", "content", "created_at", "updated_at"}
Dialects == {"sqlite", "mysql", "postgres", "mssql"}

RECURSIVE Orders(_)
\* Every order in which the names S can be declared.
Orders(S) ==
    IF S = {} THEN {<<>>}
    ELSE UNION {{<<x>> \o o : o \in Orders(S \ {x})} : x \in S}

FieldOf(name) ==
    [name |-> name,
     ty |-> IF name = "id" THEN "Option<i64>"
            ELSE IF name \in {"created_at", "updated_at"} THEN "Option<String>"
            ELSE IF name \in {"post_id", "author_id"} THEN "i64"
            ELSE "String",
     relation |-> NoRelation]

\* The #[relation(...)] attributes a field may carry.
RelationAttrs(fk) ==
    LET foreign_key == <<"foreign_key", fk>>
        to_post == <<"references", <<"post", "id">>>>
        to_user == <<"references", <<"user", "id">>>>
    IN {<<>>,
        <<<<foreign_key, to_post, <<"nested_route", "true">>>>>>,
        <<<<foreign_key, to_user, <<"nested_route", "false">>>>>>,
        <<<<foreign_key>>>>,
        <<<<to_post>>>>,
        <<<<foreign_key, <<"references", <<"post">>>>>>>>,
        <<<<foreign_key, <<"references", <<"public", "post", "id">>>>>>>>,
        <<<<<<"foreign_key", "1", "int">>, to_post>>>>,
        <<<<to_post, <<"foreign_key", "1", "int">>>>>>,
        <<<<foreign_key, to_post, <<"nested_route", "1", "int">>>>>>,
        <<<<foreign_key>>, <<to_post>>>>}

\* The #[rest_api(...)] and #[require_role(...)] attributes beside them.
RestApiAttrs ==
    {<<>>,
     <<<<"db", "postgres">>>>,
     <<<<"db", "1", "int">>>>,
     <<<<"table">>, <<"db", "postgres">>>>}
RequireRoleAttrs ==
    {<<>>,
     <<<<"read", "user">>>>,
     <<<<"read", "1", "int">>, <<"delete", "admin">>>>}

AnnotatedStructs ==
    {[struct |-> "comment",
      rest_api |-> attrs,
      require_role |-> roles,
      fields |-> <<FieldOf("id"), FieldOf("title"),
                   [FieldOf("post_id") EXCEPT !.relation = r1],
                   [FieldOf("author_id") EXCEPT !.relation = r2]>>] :
        attrs \in RestApiAttrs, roles \in RequireRoleAttrs,
        r1 \in RelationAttrs("post_id"), r2 \in RelationAttrs("author_id")}

PlainStructs ==
    {[struct |-> "item",
      rest_api |-> attrs,
      require_role |-> <<>>,
      fields |-> [i \in 1..Len(o) |-> FieldOf(o[i])]] :
        o \in UNION {Orders(T \cup {"id"}) : T \in SUBSET FieldNames},
        attrs \in {<<>>} \cup {<<<<"table", "item">>, <<"db", db>>>> : db \in Dialects}}

InitMacro ==
    /\ decl \in PlainStructs \cup AnnotatedStructs
    /\ gen = <<>>
    /\ registered = FALSE
    /\ pending = 0
    /\ ddl = "none"
    /\ tableExists = FALSE
    /\ rows = NoRows
    /\ nextId = 1
    /\ req = Idle

\* The derive macro runs on the struct.
expand ==
    /\ gen = <<>>
    /\ gen' = <<rest_api_macro(decl)>>
    /\ UNCHANGED <<decl, registered, pending, ddl, tableExists, rows, nextId, req>>

SpecMacro == InitMacro /\ [][expand]_vars

(***************************************************************************)
(* Claims                                                                  *)
(***************************************************************************)

\* The category the claims place each operation under.
CategoryOf(op) ==
    CASE op \in {"get_all", "get_one", "get_by_parent_id"} -> "read"
      [] op \in {"create", "update", "patch"} -> "update"
      [] OTHER -> "delete"

\* The roles the declaration names for a category, read off the annotation.
DeclaredRoles(category) ==
    {decl.require_role[i][2] :
        i \in {j \in 1..Len(decl.require_role) : decl.require_role[j][1] = category}}

\* The request's identity holds neither the category's role nor "admin".
LacksRole ==
    /\ req.pc # "idle"
    /\ DeclaredRoles(CategoryOf(req.op)) # {}
    /\ DeclaredRoles(CategoryOf(req.op)) \cap req.roles = {}
    /\ "admin" \notin req.roles

\* C1: a request to a handler whose category declares a role, from an
\* identity holding neither that role nor admin, is answered 403 at once:
\* it is never at an await, no statement was built, bound or sent for it,
\* and it carries no rows.
C1_ForbiddenBeforeAnySql ==
    LacksRole =>
        /\ req.pc = "done"
        /\ req.status = 403
        /\ req.stmt = None
        /\ req.stmts = 0
        /\ req.body = {}

\* C1 witness: a delete from an identity that holds only "user" on the
\* entity whose delete category asks for "admin", refused, with rows stored.
C1_Witness ==
    /\ LacksRole
    /\ req.op = "delete"
    /\ req.roles = {"user"}
    /\ req.status = 403
    /\ rows # NoRows

\* C2: a request is answered 403 only if its category declares a role and
\* the identity holds neither that role nor admin; with no role declared
\* nobody is refused, the empty role set included.
C2_GateNeverRejectsAllowed ==
    (req.pc # "idle" /\ req.status = 403) => LacksRole

\* C2 witness: an identity holding only "admin" is served on a category
\* that asks for "user".
C2_Witness ==
    /\ req.pc = "done"
    /\ req.roles = {"admin"}
    /\ DeclaredRoles(CategoryOf(req.op)) = {"user"}
    /\ req.status = 200

\* C2, second case reached: the empty role set is served on a category
\* that declares no role.
C2_UndeclaredReached ==
    /\ req.pc = "done"
    /\ req.roles = {}
    /\ DeclaredRoles(CategoryOf(req.op)) = {}
    /\ req.status = 200

DeclaresUpdatedAt == \E i \in 1..Len(decl.fields) : decl.fields[i].name = "updated_at"

\* C3: a PATCH that passes the gate and whose payload has no field present
\* is answered 200 without any statement, whether or not the entity
\* declares updated_at.
C3_EmptyPatchNoSql ==
    (req.op = "patch" /\ DOMAIN req.payload = {} /\ ~LacksRole) =>
        /\ req.pc = "done"
        /\ req.status = 200
        /\ req.stmts = 0
        /\ req.stmt = None

\* C3 witness: such a PATCH on the entity that declares updated_at, with
\* rows stored.
C3_Witness ==
    /\ req.op = "patch"
    /\ DOMAIN req.payload = {}
    /\ req.status = 200
    /\ DeclaresUpdatedAt
    /\ rows # NoRows

\* The row C4 expects a PATCH to leave: the present fields hold the
\* submitted values, updated_at (when the entity has the column) the
\* clock's reading, every other field its old value.
RowAsClaimed(row, partial) ==
    [c \in DOMAIN row |->
        IF c \in DOMAIN partial THEN partial[c]
        ELSE IF c = "updated_at" THEN Now
        ELSE row[c]]

TableAsClaimed(table, id, partial) ==
    [i \in DOMAIN table |->
        IF i = id THEN RowAsClaimed(table[i], partial) ELSE table[i]]

\* A step that ends a PATCH of an existing row, with at least one field
\* present, in 200.
PatchSucceeds ==
    /\ req.pc # "done"
    /\ req'.pc = "done"
    /\ req'.op = "patch"
    /\ req'.status = 200
    /\ DOMAIN req'.payload # {}
    /\ req'.id \in DOMAIN rows

\* C4: a PATCH of an existing row with the fields S present (timestamp
\* fields included) leaves the fields in S at the submitted values, sets
\* updated_at to the current time if the entity declares it, and leaves
\* every other field of the row and every other row unchanged.
C4_PatchChangesExactlySubset ==
    [][PatchSucceeds => rows' = TableAsClaimed(rows, req'.id, req'.payload)]_vars

\* C5: when the statement ran without a storage error, update, patch and
\* delete answer 404 if it affected no row and 200 only if it affected
\* one; get_one answers 404 if no row has the id and 200 only if one has.
C5_ZeroRowsIsNotFound ==
    (req.pc = "done" /\ req.ok) =>
        /\ req.op \in {"update", "patch", "delete"} =>
              /\ req.affected = 0 => req.status = 404
              /\ req.status = 200 => req.affected > 0
        /\ req.op = "get_one" =>
              /\ req.body = {} => req.status = 404
              /\ req.status = 200 => req.body # {}

\* An item whose every field holds the field's own name, and a path id
\* that is no field's value: the binds then name what was bound where.
NamedItem == [f \in {decl.fields[i].name : i \in 1..Len(decl.fields)} |-> f]
PathId == "path.into_inner()"

\* The placeholders of a statement in the order its text holds them: the
\* SET clauses', then the WHERE's.
PlaceholdersOf(stmt) ==
    LET all == stmt.set \o stmt.where
        at == {i \in 1..Len(all) : all[i].kind \in {"?", "$"}}
        nth(k) == CHOOSE i \in at : Cardinality({j \in at : j <= i}) = k
    IN [k \in 1..Cardinality(at) |-> all[nth(k)]]

\* The fields update binds: neither the id nor a timestamp, in declaration
\* order.
DataFields(d) ==
    Filter([i \in 1..Len(d.fields) |-> d.fields[i].name], {"id", "created_at", "updated_at"})

\* C6: under the postgres dialect, whatever the field order, the update
\* statement holds only ordinal placeholders, numbered $1..$n in order with
\* n the number of bound values; the k-th data field uses $k and is bound
\* k-th, and the WHERE's id uses $n and is bound last.
C6_PostgresUpdateOrdinals ==
    (gen # <<>> /\ db_type_of(decl) = "postgres") =>
        LET stmt == update_sql(Gen, NamedItem, PathId)
            ph == PlaceholdersOf(stmt)
            n == Len(stmt.binds)
            data == DataFields(decl)
        IN /\ Len(ph) = n
           /\ \A k \in 1..Len(ph) : ph[k].kind = "$" /\ ph[k].n = k
           /\ n = Len(data) + 1
           /\ \A k \in 1..Len(data) :
                 /\ k <= Len(ph) /\ ph[k].col = data[k]
                 /\ k <= n /\ stmt.binds[k] = data[k]
           /\ ph[Len(ph)].col = "id"
           /\ stmt.binds[n] = PathId

\* The store has answered a create with success.
CreateSucceeds ==
    /\ req.op = "create" /\ req.pc = "awaiting"
    /\ req'.pc = "done" /\ req'.status = 201

\* What get-one on the id the store has just assigned finds, the store
\* reachable.
ReadBack == Execute(select_one_sql(Gen, nextId), TRUE, tableExists', rows', nextId', Gen.field_defs)

TimestampFields == {"created_at", "updated_at"}

\* C7 as stated: after a create answering 201, get-one on the new id
\* returns a record equal to the payload on every field the payload
\* submitted, with the id the store assigned, and no earlier row changed.
C7_CreateThenGetOneAllFields ==
    [][CreateSucceeds =>
          /\ get_one_response(ReadBack) = 200
          /\ \E item \in ReadBack.out :
                /\ ReadBack.out = {item}
                /\ item.id = nextId
                /\ \A f \in DOMAIN req.payload : item[f] = req.payload[f]
          /\ \A i \in DOMAIN rows : rows'[i] = rows[i]]_vars

\* C7, amended: after a create answering 201, get-one on the new id returns
\* a record equal to the payload on every submitted field that is not a
\* timestamp; a timestamp field holds the store's clock whatever the payload
\* submitted for it; the id is the one the store assigned and no earlier
\* row changed.
C7_CreateThenGetOne ==
    [][CreateSucceeds =>
          /\ get_one_response(ReadBack) = 200
          /\ \E item \in ReadBack.out :
                /\ ReadBack.out = {item}
                /\ item.id = nextId
                /\ \A f \in DOMAIN req.payload \ TimestampFields : item[f] = req.payload[f]
                /\ \A f \in DOMAIN item \cap TimestampFields : item[f] = Now
          /\ \A i \in DOMAIN rows : rows'[i] = rows[i]]_vars

\* A create that submitted a timestamp has answered 201 beside an earlier row.
C7_Witness ==
    /\ req.op = "create" /\ req.pc = "done" /\ req.status = 201
    /\ "updated_at" \in DOMAIN req.payload
    /\ Cardinality(DOMAIN rows) > 1

\* The child rows whose foreign key is pid.
ChildrenOf(pid) == {rows[i] : i \in {j \in DOMAIN rows : rows[j][Gen.relation_field] = pid}}

\* C8: a nested list that passed the gate and that the store answered
\* returns 200 with exactly the child rows whose foreign key is the parent
\* id of the path.
C8_NestedListExactlyChildren ==
    [][(/\ req.op = "get_by_parent_id" /\ req.pc = "awaiting"
        /\ req'.pc = "done" /\ req'.ok) =>
          /\ req'.status = 200
          /\ req'.body = ChildrenOf(req.id)]_vars

\* A nested list has returned some child while another parent's child is stored.
C8_Witness ==
    /\ req.op = "get_by_parent_id" /\ req.pc = "done" /\ req.status = 200
    /\ req.body # {}
    /\ \E i \in DOMAIN rows : rows[i][Gen.relation_field] # req.id

\* A materialization task has run in this step.
Materializes == pending' < pending

\* C9: a materialization never ends in an error of the statement (at worst
\* the store is out of reach), and one that runs against an existing table
\* leaves the table, its rows and its id sequence as they were.
C9_MaterializationIdempotent ==
    /\ [](ddl # "error")
    /\ [][Materializes =>
            /\ ddl' \in {"unreachable", "created", "kept"}
            /\ tableExists /\ ddl' # "unreachable" => ddl' = "kept"
            /\ tableExists => tableExists' /\ rows' = rows /\ nextId' = nextId]_vars

\* A materialization has run against a table that holds rows.
C9_Witness == ddl = "kept" /\ rows # NoRows

\* The routes become registered in this step.
Registers == ~registered /\ registered'

\* C10: registration neither runs nor waits for the materialization and is
\* possible whatever the last materialization's outcome; a request that
\* awaits the store while the table is missing is answered, with 500.
C10_RegistrationDoesNotWait ==
    /\ [](pending < MaxPending => ENABLED configure)
    /\ [](req.pc = "awaiting" /\ ~tableExists => ENABLED Answer(TRUE))
    /\ [][Registers => tableExists' = tableExists /\ ddl' = ddl]_vars
    /\ [][(req.pc = "awaiting" /\ ~tableExists /\ req'.pc = "done") =>
             req'.status = 500 /\ rows' = rows]_vars

\* The materialization failed, the routes are registered, and a request
\* that reached the store has been answered 500 with the table missing.
C10_Witness ==
    /\ registered /\ ~tableExists /\ ddl = "unreachable"
    /\ req.pc = "done" /\ req.stmts = 1 /\ req.status = 500

\* Every #[relation(...)] attribute of the struct, whatever field it is on.
RelationAttrsOf(d) ==
    UNION {{d.fields[i].relation[j] : j \in 1..Len(d.fields[i].relation)} :
             i \in 1..Len(d.fields)}

HasKey(attr, key) == \E i \in 1..Len(attr) : attr[i][1] = key

\* Some item has no value or a literal that is not a string.
BadLiteral(attr) == \E i \in 1..Len(attr) : LitKind(attr[i]) # "str"

\* The annotations the claim calls malformed: a relation lacking one of
\* its two keys, a value that is not a string literal, a references value
\* that is not "table.column".
Malformed(d) ==
    \/ BadLiteral(d.rest_api)
    \/ BadLiteral(d.require_role)
    \/ \E attr \in RelationAttrsOf(d) :
          \/ BadLiteral(attr)
          \/ ~HasKey(attr, "foreign_key")
          \/ ~HasKey(attr, "references")
          \/ \E i \in 1..Len(attr) :
                /\ attr[i][1] = "references"
                /\ LitKind(attr[i]) = "str"
                /\ Len(attr[i][2]) # 2

\* C11: a struct with a malformed annotation is never expanded: the macro
\* fails on it and generates nothing (no routes, no statements).
C11_MalformedAnnotationFails == Malformed(decl) => gen = <<>>

\* C12: the insert statement lists exactly the fields that are neither the
\* id nor a timestamp, in declaration order, binds those fields in that
\* order, and has one placeholder per column: "?" under sqlite and mysql,
\* "$1".."$n" in order under postgres.
C12_InsertColumnsAndPlaceholders ==
    gen # <<>> =>
        LET stmt == insert_sql(Gen, NamedItem)
            data == DataFields(decl)
        IN /\ stmt.cols = data
           /\ stmt.binds = data
           /\ Len(stmt.values) = Len(data)
           /\ db_type_of(decl) \in {"sqlite", "mysql"} =>
                 \A k \in 1..Len(stmt.values) : stmt.values[k] = "?"
           /\ db_type_of(decl) = "postgres" =>
                 \A k \in 1..Len(stmt.values) : stmt.values[k] = "$" \o ToString(k)

\* The last item of the attribute with this key.
LastItem(attr, key) ==
    attr[CHOOSE i \in 1..Len(attr) :
            attr[i][1] = key /\ \A j \in (i + 1)..Len(attr) : attr[j][1] # key]

\* The attribute carries both a foreign-key key and a reference key.
CarriesBothKeys(attr) == HasKey(attr, "foreign_key") /\ HasKey(attr, "references")

\* The items of the attribute that come before any item whose value is
\* missing or is not a string literal.
BeforeBadLiteral(attr) ==
    SubSeq(attr, 1, Cardinality({i \in 1..Len(attr) :
                                   \A j \in 1..i : LitKind(attr[j]) = "str"}))

\* The attribute carries both keys before any such item, and its
\* references value has exactly two parts.
CarriesBothKeysWellFormed(attr) ==
    /\ CarriesBothKeys(BeforeBadLiteral(attr))
    /\ Len(LastItem(BeforeBadLiteral(attr), "references")[2]) = 2

\* What the claim asks of the expansion, `declared` being the attributes
\* that declare a relation: the nested route exists exactly when some field
\* has a declaring attribute; it is then the route of the last declaring
\* attribute of the last such field, under that attribute's parent table
\* and filtering on that field; otherwise only the collection and item
\* paths exist.
RelationAsDeclared(declared) ==
    LET d == decl
        declaring(i) == {j \in 1..Len(d.fields[i].relation) : d.fields[i].relation[j] \in declared}
        F == {i \in 1..Len(d.fields) : declaring(i) # {}}
        last == CHOOSE i \in F : \A k \in F : k <= i
        attr == d.fields[last].relation[CHOOSE j \in declaring(last) :
                                          \A k \in declaring(last) : k <= j]
        parent == LastItem(attr, "references")[2][1]
    IN /\ (F # {}) <=> (Gen.relation_field # "")
       /\ (F # {}) <=> (nested_route_registration(Gen) # {})
       /\ F # {} =>
             /\ Gen.relation_field = d.fields[last].name
             /\ Gen.relation_parent_table = parent
             /\ routes(Gen) = {<<Gen.table_name>>, <<Gen.table_name, "{id}">>,
                               <<parent, "{parent_id}", Gen.table_name>>}
             /\ select_by_parent_sql(Gen, 1).where = <<Positional(d.fields[last].name)>>
       /\ F = {} => routes(Gen) = {<<Gen.table_name>>, <<Gen.table_name, "{id}">>}

\* C13 as stated: the entity has a relation and a nested route exactly when
\* some field's relation annotation carries both a foreign-key key and a
\* reference key; the relation kept is that of the last such field.
C13_RelationWhenBothKeys == gen # <<>> => RelationAsDeclared({a \in RelationAttrsOf(decl) : CarriesBothKeys(a)})

\* What the expansion does instead: the entity has a relation and a nested
\* route exactly when some field's relation annotation carries, before any
\* item whose value is missing or not a string literal, both keys, the
\* references value having exactly two parts; the relation kept (filter
\* column and parent table of the route) is that of the last such field;
\* with no such annotation only the collection and item paths exist.
RelationWhenBothKeysWellFormed ==
    gen # <<>> => RelationAsDeclared({a \in RelationAttrsOf(decl) : CarriesBothKeysWellFormed(a)})

\* Two fields declare a well-formed relation, to different parents, and
\* the expansion has kept the second one's.
LastRelationKept ==
    /\ gen # <<>>
    /\ Cardinality({i \in 1..Len(decl.fields) :
                      \E j \in 1..Len(decl.fields[i].relation) :
                         CarriesBothKeysWellFormed(decl.fields[i].relation[j])}) = 2
    /\ Gen.relation_field = "author_id"
    /\ Gen.relation_parent_table = "user"
    /\ <<"user", "{parent_id}", "comment">> \in routes(Gen)

\* C14: a request never has more than one statement dispatched for it; a
\* request that passed the gate and is not a partial update without any
\* field has exactly one; once the store has answered, the request ends
\* with its response and the same single statement on its account; and a
\* storage error ends it with 500.
C14_ExactlyOneStatement ==
    /\ [](req.stmts <= 1)
    /\ [](req.pc # "idle" /\ ~LacksRole /\ ~(req.op = "patch" /\ DOMAIN req.payload = {})
            => req.stmts = 1 /\ req.stmt # None)
    /\ [](req.pc = "done" /\ req.stmts = 1 /\ ~req.ok => req.status = 500)
    /\ [][/\ req.pc = "awaiting" /\ req' # req =>
                req'.pc = "done" /\ req'.stmts = 1 /\ req'.stmt = req.stmt
          /\ req.pc = "done" /\ req' # req => req' = Idle]_vars

====
